---- MODULE Spec2Model ----
(***************************************************************************)
(* Model of src/src/background-filter.cpp: the OBS background removal      *)
(* filter.  One filter instance (struct background_removal_filter) with    *)
(* its callbacks filter_create, filter_update, filter_render and           *)
(* filter_destroy.                                                         *)
(*                                                                         *)
(* Units.  The float settings are held as integers: threshold and the      *)
(* model's output values in hundredths, contourFilter and smoothContour in *)
(* thousandths.  A null pointer is the record with id 0.                   *)
(*                                                                         *)
(* Three specifications:                                                   *)
(*   Spec      the callbacks, each one atomic step (the host serialises    *)
(*             them);                                                      *)
(*   SpecConc  filter_update and filter_render split at their reads and    *)
(*             writes of the shared struct and interleaved;                *)
(*   SpecMask  the mask arithmetic of filter_render on pixel values.       *)
(***************************************************************************)
EXTENDS Integers, Sequences, FiniteSets, TLC

VARIABLES
    phase,            \* "uncreated" | "live" | "destroyed"
    hostAlive,        \* FALSE once an exception or a fault left a callback:
                      \* no caller of the callbacks catches, the process ends
    session,          \* tf->session : [id, model], id 0 = nullptr
    sessionCount,     \* number of Ort::Session objects constructed so far
    lastLoadFailed,   \* the most recent createOrtSession returned early
    inputDims,        \* tf->inputDims
    outputDims,       \* tf->outputDims
    inputLen,         \* tf->inputTensorValues.size()
    outputLen,        \* tf->outputTensorValues.size()
    tensorDims,       \* the dims tf->inputTensor and tf->outputTensor were
                      \* created over
    config,           \* threshold, backgroundColor, contourFilter,
                      \* smoothContour, useGPU, modelSelection
    scalerToBGR,      \* tf->scalerToBGR : [id, w, h, fmt], id 0 = nullptr
    scalerFromBGR,    \* tf->scalerFromBGR
    scalerCount,      \* number of initializeScalers calls so far
    nUpdates,         \* filter_update calls after filter_create
    lastOp,           \* the callback that ran last
    lastRender,       \* what the last filter_render did
    upc,              \* SpecConc: position of the thread in filter_update
    rpc,              \* SpecConc: position of the thread in filter_render
    rloc,             \* SpecConc: locals of the running filter_render
    freed,            \* SpecConc: the scalers video_scaler_destroy freed
    mpc,              \* SpecMask: position in the mask pipeline
    mIn,              \* SpecMask: model, threshold, colour, output tensor
    mMask,            \* SpecMask: backgroundMask
    mImage            \* SpecMask: imageBGR

coreVars == <<phase, hostAlive, session, sessionCount, lastLoadFailed,
              inputDims, outputDims, inputLen, outputLen, tensorDims,
              config, scalerToBGR, scalerFromBGR, scalerCount, nUpdates, lastOp,
              lastRender>>
concVars == <<upc, rpc, rloc, freed>>
maskVars == <<mpc, mIn, mMask, mImage>>
vars == <<coreVars, concVars, maskVars>>

----------------------------------------------------------------------------
(* Bounds *)

MaxUpdates == 2
MaxConcUpdates == 1

----------------------------------------------------------------------------
(* Constants of the program *)

MODEL_SINET == "SINet_Softmax_simple.onnx"
MODEL_MODNET == "modnet_simple.onnx"
Models == {MODEL_SINET, MODEL_MODNET}

NullSession == [id |-> 0, model |-> "none"]
NullScaler == [id |-> 0, dir |-> "none", w |-> 0, h |-> 0, fmt |-> "none"]

\* The shapes session->GetInputTypeInfo(0) / GetOutputTypeInfo(0) report for
\* the two model files: (1, 3, H, W) in, (1, 1, H, W) out; small H and W.
ModelInputShape(m) == IF m = MODEL_SINET THEN <<1, 3, 2, 2>> ELSE <<1, 3, 2, 3>>
ModelOutputShape(m) == IF m = MODEL_SINET THEN <<1, 1, 2, 2>> ELSE <<1, 1, 2, 3>>

\* Settings the host can hand to filter_update.
ThresholdValues == {25, 50}
ContourValues == {50}
SmoothValues == {0, 5, 500}
ColorValues == {255}
Settings ==
    [threshold : ThresholdValues, contourFilter : ContourValues,
     smoothContour : SmoothValues, color : ColorValues,
     useGPU : {FALSE}, modelSelection : Models]

\* Frames the host can hand to filter_render: width, height, format.
Frames ==
    { [w |-> 4, h |-> 4, fmt |-> "I420"],
      [w |-> 8, h |-> 4, fmt |-> "I420"],
      [w |-> 4, h |-> 4, fmt |-> "YUY2"] }

----------------------------------------------------------------------------
(* Pure helpers *)

RECURSIVE vectorProduct(_)
vectorProduct(v) == IF v = <<>> THEN 1 ELSE Head(v) * vectorProduct(Tail(v))

\* backgroundColor.val[0..2] from the 24 bit replaceColor.
BackgroundColor(color) ==
    <<color % 256, (color \div 256) % 256, (color \div 65536) % 256>>

ConfigOf(s) ==
    [threshold |-> s.threshold,
     backgroundColor |-> BackgroundColor(s.color),
     contourFilter |-> s.contourFilter,
     smoothContour |-> s.smoothContour,
     useGPU |-> s.useGPU,
     modelSelection |-> s.modelSelection]

\* The struct as bzalloc leaves it.
ZeroConfig ==
    [threshold |-> 0, backgroundColor |-> <<0, 0, 0>>, contourFilter |-> 0,
     smoothContour |-> 0, useGPU |-> FALSE, modelSelection |-> "none"]

\* A scaler built by video_scaler_create for a frame's size and format
\* (the host's frames are of formats libobs can convert: creation succeeds).
NewScaler(id, dir, frame) ==
    [id |-> id, dir |-> dir, w |-> frame.w, h |-> frame.h, fmt |-> frame.fmt]

ScalerMatches(sc, frame) ==
    sc.w = frame.w /\ sc.h = frame.h /\ sc.fmt = frame.fmt

\* std::vector::at(2) and at(3) succeed.
DimsReadable(dims) == Len(dims) >= 4

\* Number of floats hwc_to_chw yields for the image resized to
\* cv::Size(inputDims.at(2), inputDims.at(3)): three channel planes.
ChwLengthDropsChannel(dims) == dims[3] * dims[4]
ChwLength(dims) == 3 * dims[3] * dims[4]

\* k_size = (int)(100 * tf->smoothContour), smoothContour in thousandths.
KSize(smooth) == (100 * smooth) \div 1000

NoRender ==
    [valid |-> FALSE, frame |-> [w |-> 0, h |-> 0, fmt |-> "none"],
     usedTo |-> NullScaler, usedFrom |-> NullScaler, stop |-> "none",
     outcome |-> "none", sessionAbsent |-> FALSE, ranInference |-> FALSE,
     runFailed |-> FALSE, blur |-> FALSE, ksize |-> 0]

----------------------------------------------------------------------------
(* Initial state: the struct of filter_create before its filter_update *)

CoreInit ==
    /\ phase = "uncreated"
    /\ hostAlive = TRUE
    /\ session = NullSession
    /\ sessionCount = 0
    /\ lastLoadFailed = FALSE
    /\ inputDims = <<>>
    /\ outputDims = <<>>
    /\ inputLen = 0
    /\ outputLen = 0
    /\ tensorDims = [in |-> <<>>, out |-> <<>>]
    /\ config = ZeroConfig
    /\ scalerToBGR = NullScaler
    /\ scalerFromBGR = NullScaler
    /\ scalerCount = 0
    /\ nUpdates = 0
    /\ lastOp = "none"
    /\ lastRender = NoRender

ConcInit ==
    /\ upc = "idle"
    /\ rpc = "idle"
    /\ rloc = [frame |-> [w |-> 0, h |-> 0, fmt |-> "none"], sc |-> NullScaler]
    /\ freed = {}

MaskIdle ==
    /\ mpc = "off"
    /\ mIn = [model |-> "none", threshold |-> 0, color |-> 0,
              frame |-> [w |-> 0, h |-> 0], out |-> <<>>]
    /\ mMask = [rows |-> 0, cols |-> 0, px |-> <<>>]
    /\ mImage = <<>>

Init == CoreInit /\ ConcInit /\ MaskIdle

----------------------------------------------------------------------------
(* filter_update, and filter_create which calls it *)

\* createOrtSession: the assignments to session, dims and buffers.  A load
\* that fails (obs_module_file returns nullptr, or the Ort::Session
\* constructor throws and is caught) returns before any of them.
createOrtSession(model, loadOk) ==
    /\ lastLoadFailed' = ~loadOk
    /\ IF loadOk
       THEN /\ session' = [id |-> sessionCount + 1, model |-> model]
            /\ sessionCount' = sessionCount + 1
            /\ outputDims' = ModelOutputShape(model)
            /\ outputLen' = vectorProduct(ModelOutputShape(model))
            /\ inputDims' = ModelInputShape(model)
            /\ inputLen' = vectorProduct(ModelInputShape(model))
            /\ tensorDims' = [in |-> ModelInputShape(model),
                              out |-> ModelOutputShape(model)]
       ELSE UNCHANGED <<session, sessionCount, outputDims, outputLen,
                        inputDims, inputLen, tensorDims>>

destroyScalers ==
    /\ scalerToBGR' = NullScaler
    /\ scalerFromBGR' = NullScaler

UpdateBody(s, loadOk) ==
    /\ config' = ConfigOf(s)
    /\ destroyScalers
    /\ createOrtSession(s.modelSelection, loadOk)
    /\ UNCHANGED <<scalerCount, lastRender, hostAlive>>

filter_create ==
    /\ phase = "uncreated"
    /\ \E s \in Settings, loadOk \in BOOLEAN : UpdateBody(s, loadOk)
    /\ phase' = "live"
    /\ lastOp' = "create"
    /\ UNCHANGED <<nUpdates, concVars, maskVars>>

filter_update ==
    /\ phase = "live"
    /\ hostAlive
    /\ nUpdates < MaxUpdates
    /\ \E s \in Settings, loadOk \in BOOLEAN : UpdateBody(s, loadOk)
    /\ nUpdates' = nUpdates + 1
    /\ lastOp' = "update"
    /\ UNCHANGED <<phase, concVars, maskVars>>

filter_destroy ==
    /\ phase = "live"
    /\ hostAlive
    /\ destroyScalers
    /\ phase' = "destroyed"
    /\ lastOp' = "destroy"
    /\ UNCHANGED <<hostAlive, session, sessionCount, lastLoadFailed,
                   inputDims, outputDims, inputLen, outputLen, tensorDims,
                   config, scalerCount, nUpdates, lastRender, concVars,
                   maskVars>>

----------------------------------------------------------------------------
(* filter_render *)

\* Where a filter_render call ends.  `to1` is the scaler convertFrameToBGR
\* uses.  A scaler built for another geometry makes video_scaler_scale read
\* and write outside the frame's and the image's buffers: undefined, `ub`
\* says whether the call faults there.  vector::at on the empty dims throws
\* std::out_of_range, session->Run throws Ort::Exception, cv::boxFilter
\* rejects an empty kernel with cv::Exception; nothing in filter_render
\* catches.
RenderStop(frame, runOk, ub, to1) ==
    IF ~ScalerMatches(to1, frame) /\ ub THEN "faultScaleTo"
    ELSE IF ~DimsReadable(inputDims) THEN "throwInputDims"
    ELSE IF session.id = 0 THEN "faultNullSession"
    ELSE IF ~runOk THEN "throwRun"
    ELSE IF ~DimsReadable(outputDims) THEN "throwOutputDims"
    ELSE IF config.smoothContour > 0 /\ KSize(config.smoothContour) < 1
         THEN "throwBoxFilter"
    ELSE "convertBack"

StopOutcome(stop) ==
    CASE stop = "done" -> "composited"
      [] stop \in {"faultScaleTo", "faultNullSession", "faultStaleTensors",
                   "faultScaleFrom"} -> "fault"
      [] OTHER -> "threw"

\* filter_render holds no assignment to tf->session and no call of
\* createOrtSession.
RenderRetriesLoad ==
    IF lastLoadFailed
    THEN /\ session' = [id |-> sessionCount + 1, model |-> config.modelSelection]
         /\ sessionCount' = sessionCount + 1
         /\ lastLoadFailed' = FALSE
    ELSE UNCHANGED <<session, sessionCount, lastLoadFailed>>
RenderSessionEffect == UNCHANGED <<session, sessionCount, lastLoadFailed>>

RenderFrame(frame, runOk, ub) ==
    LET initTo == scalerToBGR.id = 0
        gen1 == IF initTo THEN scalerCount + 1 ELSE scalerCount
        to1 == IF initTo THEN NewScaler(gen1, "toBGR", frame) ELSE scalerToBGR
        from1 == IF initTo THEN NewScaler(gen1, "fromBGR", frame)
                 ELSE scalerFromBGR
        stop1 == RenderStop(frame, runOk, ub, to1)
        back == stop1 = "convertBack"
        initFrom == back /\ from1.id = 0
        gen2 == IF initFrom THEN gen1 + 1 ELSE gen1
        to2 == IF initFrom THEN NewScaler(gen2, "toBGR", frame) ELSE to1
        from2 == IF initFrom THEN NewScaler(gen2, "fromBGR", frame) ELSE from1
        stop == IF ~back THEN stop1
                ELSE IF ~ScalerMatches(from2, frame) /\ ub THEN "faultScaleFrom"
                ELSE "done"
        assigned == stop1 \notin {"faultScaleTo", "throwInputDims"}
        ran == stop1 \notin {"faultScaleTo", "throwInputDims",
                             "faultNullSession", "throwRun"}
        blurred == /\ stop1 \in {"throwBoxFilter", "convertBack"}
                   /\ config.smoothContour > 0
    IN  /\ scalerToBGR' = to2
        /\ scalerFromBGR' = from2
        /\ scalerCount' = gen2
        /\ inputLen' = IF assigned THEN ChwLength(inputDims) ELSE inputLen
        /\ RenderSessionEffect
        /\ hostAlive' = (stop = "done")
        /\ lastRender' =
              [valid |-> TRUE, frame |-> frame, usedTo |-> to1,
               usedFrom |-> IF back THEN from2 ELSE NullScaler,
               stop |-> stop, outcome |-> StopOutcome(stop),
               sessionAbsent |-> session.id = 0,
               ranInference |-> ran,
               runFailed |-> stop1 = "throwRun",
               blur |-> blurred,
               ksize |-> IF blurred THEN KSize(config.smoothContour) ELSE 0]
        /\ UNCHANGED <<inputDims, outputDims, outputLen, tensorDims, config>>

filter_render ==
    /\ phase = "live"
    /\ hostAlive
    /\ \E frame \in Frames, runOk \in BOOLEAN, ub \in BOOLEAN :
          RenderFrame(frame, runOk, ub)
    /\ lastOp' = "render"
    /\ UNCHANGED <<phase, nUpdates, concVars, maskVars>>

----------------------------------------------------------------------------
(* The serialised specification *)

Next == filter_create \/ filter_update \/ filter_render \/ filter_destroy

Spec == Init /\ [][Next]_vars

----------------------------------------------------------------------------
(* Claims checked under Spec *)

\* C1: a filter_render called while the session is absent skips inference
\* and returns the input frame unmodified to the host.
C1_AbsentSessionRenderPassesThrough ==
    (lastRender.valid /\ lastRender.sessionAbsent)
        => (hostAlive /\ lastRender.outcome = "passthrough")

\* C2: whenever the most recent model load failed, the session is absent.
C2_FailedLoadLeavesSessionAbsent ==
    (phase = "live" /\ lastLoadFailed) => session = NullSession

\* C3: a filter_update that changes only threshold, arriving after a render
\* built the converters, keeps both converters and the session: no instance
\* is destroyed and none is created.
C3_ThresholdOnlyUpdateKeepsInstances ==
    [][ ( /\ lastOp' = "update"
          /\ nUpdates' = nUpdates + 1
          /\ lastRender.valid
          /\ scalerToBGR.id # 0
          /\ config'.threshold # config.threshold
          /\ [config' EXCEPT !.threshold = config.threshold] = config )
        => ( /\ scalerToBGR' = scalerToBGR
             /\ scalerFromBGR' = scalerFromBGR
             /\ session' = session
             /\ sessionCount' = sessionCount ) ]_vars

\* C4: the converters a filter_render uses were built with that frame's
\* width, height and pixel format.
C4_ConvertersMatchFrame ==
    lastRender.valid =>
        /\ ScalerMatches(lastRender.usedTo, lastRender.frame)
        /\ (lastRender.usedFrom.id # 0 =>
                ScalerMatches(lastRender.usedFrom, lastRender.frame))

\* C5: when session->Run fails, the render still returns to the host with
\* the frame unmodified.
C5_RunFailureReturnsFrame ==
    (lastRender.valid /\ lastRender.runFailed)
        => (hostAlive /\ lastRender.outcome = "passthrough")

\* C8 as stated: in every state of a created filter each persistent buffer
\* is as long as the product of its dims.
C8_BufferLengthsAlways ==
    phase = "live" =>
        /\ inputLen = vectorProduct(inputDims)
        /\ outputLen = vectorProduct(outputDims)

\* C8 amended: once a model load has succeeded (the session is present),
\* each persistent buffer is as long as the product of its dims, also after
\* failed reloads and after the per-frame assignment into inputTensorValues.
C8_BufferLengthsWhenLoaded ==
    session.id # 0 =>
        /\ inputLen = vectorProduct(inputDims)
        /\ outputLen = vectorProduct(outputDims)

\* C8 witness: a render assigned the input buffer under a session that a
\* failed reload left in place.
C8_Witness ==
    /\ session.id # 0
    /\ lastLoadFailed
    /\ lastOp = "render"
    /\ lastRender.ranInference
    /\ config.modelSelection # session.model

\* C9: a filter_render step never loads a model and never creates, replaces
\* or removes the session; a failed load stays failed across renders.
C9_RenderKeepsModelState ==
    [][ lastOp' = "render"
        => UNCHANGED <<session, sessionCount, lastLoadFailed>> ]_vars

\* C9 witness: a render has run in the Failed state.
C9_Witness ==
    lastLoadFailed /\ lastOp = "render" /\ lastRender.valid

\* C10: whenever the box blur is invoked its kernel size is at least 1.
C10_BlurKernelAtLeastOne ==
    (lastRender.valid /\ lastRender.blur) => lastRender.ksize >= 1

----------------------------------------------------------------------------
(* The mask arithmetic of filter_render on pixel values (SpecMask).       *)
(* contourFilter and smoothContour are 0 here: the contour and the blur   *)
(* branches are not taken.                                                *)

OutputValues == {0, 50, 100}
MaskThresholds == {0, 50, 100}
MaskColors == {0, 255}
MaskFrames == { [w |-> 4, h |-> 4], [w |-> 6, h |-> 4] }
OriginalPixel == <<10, 20, 30>>

\* cv::Mat outputImage(outputDims.at(2), outputDims.at(3), CV_32FC1, ...):
\* rows, cols and the flat row-major values.
OutputTensors(m) ==
    LET shape == ModelOutputShape(m)
    IN  [1..(shape[3] * shape[4]) -> OutputValues]

\* One element of backgroundMask: 255 where the comparison holds, else 0.
BackgroundMaskValueSwapped(model, v, threshold) ==
    IF model = MODEL_SINET
    THEN (IF v < threshold THEN 255 ELSE 0)
    ELSE (IF v > threshold THEN 255 ELSE 0)
BackgroundMaskValue(model, v, threshold) ==
    IF model = MODEL_SINET
    THEN (IF v > threshold THEN 255 ELSE 0)
    ELSE (IF v < threshold THEN 255 ELSE 0)

\* cv::resize with INTER_LINEAR, one axis: the source index and the weight
\* of its right neighbour in units of 1 / (2 * dsize), clamped at the edges.
ResizeCoord(d, dsize, ssize) ==
    LET pos == (2 * d + 1) * ssize - dsize
        i == pos \div (2 * dsize)
        f == pos % (2 * dsize)
    IN  IF pos < 0 THEN [i |-> 0, f |-> 0]
        ELSE IF i >= ssize - 1 THEN [i |-> ssize - 1, f |-> 0]
        ELSE [i |-> i, f |-> f]

\* cv::resize(backgroundMask, backgroundMask, imageBGR.size()).
ResizeMask(m, dw, dh) ==
    LET ux == 2 * dw
        uy == 2 * dh
        at(r, c) == m.px[r * m.cols + c + 1]
        pixel(dy, dx) ==
            LET cx == ResizeCoord(dx, dw, m.cols)
                cy == ResizeCoord(dy, dh, m.rows)
                c1 == IF cx.f = 0 THEN cx.i ELSE cx.i + 1
                r1 == IF cy.f = 0 THEN cy.i ELSE cy.i + 1
                sum == (ux - cx.f) * (uy - cy.f) * at(cy.i, cx.i)
                       + cx.f * (uy - cy.f) * at(cy.i, c1)
                       + (ux - cx.f) * cy.f * at(r1, cx.i)
                       + cx.f * cy.f * at(r1, c1)
            IN  (2 * sum + ux * uy) \div (2 * ux * uy)
    IN  [rows |-> dh, cols |-> dw,
         px |-> [k \in 1..(dw * dh) |-> pixel((k - 1) \div dw, (k - 1) % dw)]]

\* imageBGR.setTo(tf->backgroundColor, backgroundMask).
SetTo(image, color, mask) ==
    [k \in 1..Len(image) |-> IF mask.px[k] # 0 THEN color ELSE image[k]]

OriginalImage(frame) == [k \in 1..(frame.w * frame.h) |-> OriginalPixel]

MaskInit ==
    /\ CoreInit
    /\ ConcInit
    /\ mpc = "threshold"
    /\ \E m \in Models :
          mIn \in [model : {m}, threshold : MaskThresholds, color : MaskColors,
                   frame : MaskFrames, out : OutputTensors(m)]
    /\ mMask = [rows |-> 0, cols |-> 0, px |-> <<>>]
    /\ mImage = OriginalImage(mIn.frame)

MaskThreshold ==
    /\ mpc = "threshold"
    /\ mMask' = [rows |-> ModelOutputShape(mIn.model)[3],
                 cols |-> ModelOutputShape(mIn.model)[4],
                 px |-> [k \in 1..Len(mIn.out) |->
                            BackgroundMaskValue(mIn.model, mIn.out[k],
                                                mIn.threshold)]]
    /\ mpc' = "resize"
    /\ UNCHANGED <<mIn, mImage, coreVars, concVars>>

MaskResize ==
    /\ mpc = "resize"
    /\ mMask' = ResizeMask(mMask, mIn.frame.w, mIn.frame.h)
    /\ mpc' = "composite"
    /\ UNCHANGED <<mIn, mImage, coreVars, concVars>>

MaskComposite ==
    /\ mpc = "composite"
    /\ mImage' = SetTo(mImage, BackgroundColor(mIn.color), mMask)
    /\ mpc' = "done"
    /\ UNCHANGED <<mIn, mMask, coreVars, concVars>>

MaskNext == MaskThreshold \/ MaskResize \/ MaskComposite

SpecMask == MaskInit /\ [][MaskNext]_vars

AllZeroOutput == \A k \in 1..Len(mIn.out) : mIn.out[k] = 0
AllBackground ==
    /\ \A k \in 1..Len(mImage) : mMask.px[k] # 0
    /\ \A k \in 1..Len(mImage) : mImage[k] = BackgroundColor(mIn.color)
AllForeground ==
    /\ \A k \in 1..Len(mImage) : mMask.px[k] = 0
    /\ mImage = OriginalImage(mIn.frame)

----------------------------------------------------------------------------
(* filter_update and filter_render on two threads (SpecConc).  The source *)
(* takes no lock in either callback: each step below is one read or write *)
(* of the shared struct, and the steps of the two threads interleave.      *)
(* filter_create runs before the host delivers any other callback.         *)

\* destroyScalers, one pointer: video_scaler_destroy and the null store.
DestroyTo ==
    /\ freed' = IF scalerToBGR.id # 0 THEN freed \cup {scalerToBGR} ELSE freed
    /\ scalerToBGR' = NullScaler

DestroyFrom ==
    /\ freed' = IF scalerFromBGR.id # 0 THEN freed \cup {scalerFromBGR} ELSE freed
    /\ scalerFromBGR' = NullScaler

\* initializeScalers: destroyScalers, then both video_scaler_create calls.
ConcInitializeScalers(frame) ==
    /\ freed' = freed \cup ({scalerToBGR, scalerFromBGR} \ {NullScaler})
    /\ scalerToBGR' = NewScaler(scalerCount + 1, "toBGR", frame)
    /\ scalerFromBGR' = NewScaler(scalerCount + 1, "fromBGR", frame)
    /\ scalerCount' = scalerCount + 1

ConcLive == phase = "live" /\ hostAlive

\* The settings and frames the interleaved threads are driven with.
ConcSettings ==
    {s \in Settings : s.threshold = 50 /\ s.smoothContour \in {0, 5}}
ConcFrames == {f \in Frames : f.fmt = "I420"}

\* lines 249-261: the settings are stored.
U_config ==
    /\ ConcLive
    /\ upc = "idle"
    /\ nUpdates < MaxConcUpdates
    /\ \E s \in ConcSettings : config' = ConfigOf(s)
    /\ nUpdates' = nUpdates + 1
    /\ upc' = "destroyTo"
    /\ UNCHANGED <<phase, hostAlive, session, sessionCount, lastLoadFailed,
                   inputDims, outputDims, inputLen, outputLen, tensorDims,
                   scalerToBGR, scalerFromBGR, scalerCount, lastOp,
                   lastRender, rpc, rloc, freed, maskVars>>

\* lines 235-238.
U_destroyTo ==
    /\ ConcLive
    /\ upc = "destroyTo"
    /\ DestroyTo
    /\ upc' = "destroyFrom"
    /\ UNCHANGED <<phase, hostAlive, session, sessionCount, lastLoadFailed,
                   inputDims, outputDims, inputLen, outputLen, tensorDims,
                   config, scalerFromBGR, scalerCount, nUpdates, lastOp,
                   lastRender, rpc, rloc, maskVars>>

\* lines 239-242.
U_destroyFrom ==
    /\ ConcLive
    /\ upc = "destroyFrom"
    /\ DestroyFrom
    /\ upc' = "load"
    /\ UNCHANGED <<phase, hostAlive, session, sessionCount, lastLoadFailed,
                   inputDims, outputDims, inputLen, outputLen, tensorDims,
                   config, scalerToBGR, scalerCount, nUpdates, lastOp,
                   lastRender, rpc, rloc, maskVars>>

\* lines 160-189: the session is replaced, or the load fails and
\* createOrtSession returns.
U_load ==
    /\ ConcLive
    /\ upc = "load"
    /\ \E loadOk \in BOOLEAN :
          /\ lastLoadFailed' = ~loadOk
          /\ IF loadOk
             THEN /\ session' = [id |-> sessionCount + 1,
                                 model |-> config.modelSelection]
                  /\ sessionCount' = sessionCount + 1
                  /\ upc' = "outputDims"
                  /\ UNCHANGED lastOp
             ELSE /\ upc' = "idle"
                  /\ lastOp' = "update"
                  /\ UNCHANGED <<session, sessionCount>>
    /\ UNCHANGED <<phase, hostAlive, inputDims, outputDims, inputLen,
                   outputLen, tensorDims, config, scalerToBGR, scalerFromBGR,
                   scalerCount, nUpdates, lastRender, rpc, rloc, freed,
                   maskVars>>

\* lines 200-203.
U_outputDims ==
    /\ ConcLive
    /\ upc = "outputDims"
    /\ outputDims' = ModelOutputShape(session.model)
    /\ outputLen' = vectorProduct(ModelOutputShape(session.model))
    /\ upc' = "inputDims"
    /\ UNCHANGED <<phase, hostAlive, session, sessionCount, lastLoadFailed,
                   inputDims, inputLen, tensorDims, config, scalerToBGR,
                   scalerFromBGR, scalerCount, nUpdates, lastOp, lastRender,
                   rpc, rloc, freed, maskVars>>

\* lines 205-209.
U_inputDims ==
    /\ ConcLive
    /\ upc = "inputDims"
    /\ inputDims' = ModelInputShape(session.model)
    /\ inputLen' = vectorProduct(ModelInputShape(session.model))
    /\ upc' = "tensors"
    /\ UNCHANGED <<phase, hostAlive, session, sessionCount, lastLoadFailed,
                   outputDims, outputLen, tensorDims, config, scalerToBGR,
                   scalerFromBGR, scalerCount, nUpdates, lastOp, lastRender,
                   rpc, rloc, freed, maskVars>>

\* lines 215-229: both Ort::Value tensors are created over the new buffers.
U_tensors ==
    /\ ConcLive
    /\ upc = "tensors"
    /\ tensorDims' = [in |-> inputDims, out |-> outputDims]
    /\ upc' = "idle"
    /\ lastOp' = "update"
    /\ UNCHANGED <<phase, hostAlive, session, sessionCount, lastLoadFailed,
                   inputDims, outputDims, inputLen, outputLen, config,
                   scalerToBGR, scalerFromBGR, scalerCount, nUpdates,
                   lastRender, rpc, rloc, freed, maskVars>>

\* What the session, its dims and its tensors look like when none of them
\* is half replaced.
SessionWhole ==
    /\ inputDims = ModelInputShape(session.model)
    /\ outputDims = ModelOutputShape(session.model)
    /\ tensorDims = [in |-> inputDims, out |-> outputDims]

\* A render left by an exception or a fault.
RenderDies(stop) ==
    /\ hostAlive' = FALSE
    /\ rpc' = "idle"
    /\ lastOp' = "render"
    /\ lastRender' = [NoRender EXCEPT !.valid = TRUE, !.frame = rloc.frame,
                                      !.stop = stop,
                                      !.outcome = StopOutcome(stop),
                                      !.sessionAbsent = session.id = 0]

\* lines 317-322: the null test of scalerToBGR and the lazy initialisation.
R_begin ==
    /\ ConcLive
    /\ rpc = "idle"
    /\ \E frame \in ConcFrames :
          /\ rloc' = [frame |-> frame, sc |-> NullScaler]
          /\ IF scalerToBGR.id = 0
             THEN ConcInitializeScalers(frame)
             ELSE UNCHANGED <<scalerToBGR, scalerFromBGR, scalerCount, freed>>
    /\ rpc' = "scaleTo"
    /\ UNCHANGED <<phase, hostAlive, session, sessionCount, lastLoadFailed,
                   inputDims, outputDims, inputLen, outputLen, tensorDims,
                   config, nUpdates, lastOp, lastRender, upc, maskVars>>

\* line 326: tf->scalerToBGR is read again and handed to video_scaler_scale.
R_scaleTo ==
    /\ ConcLive
    /\ rpc = "scaleTo"
    /\ rloc' = [rloc EXCEPT !.sc = scalerToBGR]
    /\ rpc' = "scalingTo"
    /\ UNCHANGED <<coreVars, upc, freed, maskVars>>

\* video_scaler_scale runs on the scaler it was handed.  A null scaler makes
\* it return false; a freed or mismatched one is undefined: the call faults
\* or goes on.
R_scalingTo ==
    /\ ConcLive
    /\ rpc = "scalingTo"
    /\ \E ub \in BOOLEAN :
          IF /\ ub
             /\ rloc.sc.id # 0
             /\ (rloc.sc \in freed \/ ~ScalerMatches(rloc.sc, rloc.frame))
          THEN /\ RenderDies("faultScaleTo")
               /\ UNCHANGED inputLen
          ELSE /\ rpc' = "preprocess"
               /\ UNCHANGED <<hostAlive, lastOp, lastRender, inputLen>>
    /\ UNCHANGED <<phase, session, sessionCount, lastLoadFailed, inputDims,
                   outputDims, outputLen, tensorDims, config, scalerToBGR,
                   scalerFromBGR, scalerCount, nUpdates, upc, rloc, freed,
                   maskVars>>

\* lines 356-379: inputDims is read and the preprocessed image assigned to
\* inputTensorValues.
R_preprocess ==
    /\ ConcLive
    /\ rpc = "preprocess"
    /\ IF ~DimsReadable(inputDims)
       THEN /\ RenderDies("throwInputDims")
            /\ UNCHANGED inputLen
       ELSE /\ inputLen' = ChwLength(inputDims)
            /\ rpc' = "run"
            /\ UNCHANGED <<hostAlive, lastOp, lastRender>>
    /\ UNCHANGED <<phase, session, sessionCount, lastLoadFailed, inputDims,
                   outputDims, outputLen, tensorDims, config, scalerToBGR,
                   scalerFromBGR, scalerCount, nUpdates, upc, rloc, freed,
                   maskVars>>

\* lines 381-385: session->Run on tf->inputTensor and tf->outputTensor.  Run
\* over tensors that no longer belong to the session's buffers is undefined.
R_run ==
    /\ ConcLive
    /\ rpc = "run"
    /\ \E runOk \in BOOLEAN, ub \in BOOLEAN :
          IF session.id = 0 THEN RenderDies("faultNullSession")
          ELSE IF ~SessionWhole /\ ub THEN RenderDies("faultStaleTensors")
          ELSE IF ~runOk THEN RenderDies("throwRun")
          ELSE /\ rpc' = "postprocess"
               /\ UNCHANGED <<hostAlive, lastOp, lastRender>>
    /\ UNCHANGED <<phase, session, sessionCount, lastLoadFailed, inputDims,
                   outputDims, inputLen, outputLen, tensorDims, config,
                   scalerToBGR, scalerFromBGR, scalerCount, nUpdates, upc,
                   rloc, freed, maskVars>>

\* lines 387-425: outputDims and the settings are read, the mask is built
\* and applied.
R_postprocess ==
    /\ ConcLive
    /\ rpc = "postprocess"
    /\ IF ~DimsReadable(outputDims) THEN RenderDies("throwOutputDims")
       ELSE IF config.smoothContour > 0 /\ KSize(config.smoothContour) < 1
            THEN RenderDies("throwBoxFilter")
       ELSE /\ rpc' = "convertBack"
            /\ UNCHANGED <<hostAlive, lastOp, lastRender>>
    /\ UNCHANGED <<phase, session, sessionCount, lastLoadFailed, inputDims,
                   outputDims, inputLen, outputLen, tensorDims, config,
                   scalerToBGR, scalerFromBGR, scalerCount, nUpdates, upc,
                   rloc, freed, maskVars>>

\* lines 337-340: the null test of scalerFromBGR and the lazy initialisation.
R_convertBack ==
    /\ ConcLive
    /\ rpc = "convertBack"
    /\ IF scalerFromBGR.id = 0
       THEN ConcInitializeScalers(rloc.frame)
       ELSE UNCHANGED <<scalerToBGR, scalerFromBGR, scalerCount, freed>>
    /\ rpc' = "scaleFrom"
    /\ UNCHANGED <<phase, hostAlive, session, sessionCount, lastLoadFailed,
                   inputDims, outputDims, inputLen, outputLen, tensorDims,
                   config, nUpdates, lastOp, lastRender, upc, rloc, maskVars>>

\* line 343: tf->scalerFromBGR is read again and handed to
\* video_scaler_scale.
R_scaleFrom ==
    /\ ConcLive
    /\ rpc = "scaleFrom"
    /\ rloc' = [rloc EXCEPT !.sc = scalerFromBGR]
    /\ rpc' = "scalingFrom"
    /\ UNCHANGED <<coreVars, upc, freed, maskVars>>

\* video_scaler_scale back to the frame, then filter_render returns.
R_scalingFrom ==
    /\ ConcLive
    /\ rpc = "scalingFrom"
    /\ \E ub \in BOOLEAN :
          IF /\ ub
             /\ rloc.sc.id # 0
             /\ (rloc.sc \in freed \/ ~ScalerMatches(rloc.sc, rloc.frame))
          THEN RenderDies("faultScaleFrom")
          ELSE /\ rpc' = "idle"
               /\ lastOp' = "render"
               /\ lastRender' =
                     [NoRender EXCEPT !.valid = TRUE, !.frame = rloc.frame,
                                      !.usedFrom = rloc.sc,
                                      !.stop = "done",
                                      !.outcome = "composited",
                                      !.ranInference = TRUE]
               /\ UNCHANGED hostAlive
    /\ UNCHANGED <<phase, session, sessionCount, lastLoadFailed, inputDims,
                   outputDims, inputLen, outputLen, tensorDims, config,
                   scalerToBGR, scalerFromBGR, scalerCount, nUpdates, upc,
                   rloc, freed, maskVars>>

ConcUpdate ==
    \/ U_config \/ U_destroyTo \/ U_destroyFrom \/ U_load
    \/ U_outputDims \/ U_inputDims \/ U_tensors

ConcRender ==
    \/ R_begin \/ R_scaleTo \/ R_scalingTo \/ R_preprocess \/ R_run
    \/ R_postprocess \/ R_convertBack \/ R_scaleFrom \/ R_scalingFrom

ConcNext == filter_create \/ ConcUpdate \/ ConcRender

SpecConc == Init /\ [][ConcNext]_vars

\* C6: with filter_update and filter_render delivered concurrently, no
\* render is ever running video_scaler_scale on a converter that has been
\* destroyed, nor about to run the session while its dims or tensors are
\* only partly replaced.
C6_RenderNeverSeesHalfReplaced ==
    /\ (rpc \in {"scalingTo", "scalingFrom"} => rloc.sc \notin freed)
    /\ ((rpc = "run" /\ session.id # 0) => SessionWhole)

====
